---- MODULE Spec2Model ----
(***************************************************************************)
(* pyblu: the Player client (src/src/pyblu/player.py), its error wrappers  *)
(* (src/src/pyblu/errors.py) and the response parser                       *)
(* (src/src/pyblu/parse.py).                                               *)
(*                                                                         *)
(* Python values.  A value that can be None at run time is None or         *)
(* Some(v).  A str is a sequence of one-character strings, so that int(),  *)
(* float(), str() and == "1" are computed and not looked up.  The          *)
(* characters that occur in the model are the digits, "-", "+", ".", " "   *)
(* and a few letters none of which int() or float() accepts (no "e", "_",  *)
(* "inf", "nan").  A float is the decimal it was written as, m / 10^e,     *)
(* normalised; seconds are whole numbers.  The interpreter is Python 3.11  *)
(* or later, where asyncio.TimeoutError is the builtin TimeoutError.       *)
(***************************************************************************)
EXTENDS Integers, Sequences, FiniteSets, TLC

VARIABLES session_owned, default_timeout, session_closed, scope, close_called,
          exit_exc, last, parser, doc, parsed

clientVars == <<session_owned, default_timeout, session_closed, scope,
                close_called, exit_exc, last>>
parseVars == <<parser, doc, parsed>>
vars == <<session_owned, default_timeout, session_closed, scope, close_called,
          exit_exc, last, parser, doc, parsed>>

(***************************************************************************)
(* Program constants and bounds.                                           *)
(***************************************************************************)
DefaultTimeout == 5
DefaultPollTimeout == 30
DefaultPort == 11000

MaxTimeout == 2
MaxSlaves == 2
MaxItems == 2

(***************************************************************************)
(* None, Optional and the outcome of evaluating an expression.             *)
(***************************************************************************)
None == [none |-> TRUE]
Some(v) == [some |-> v]
IsNone(o) == "none" \in DOMAIN o
Ok(v) == [ok |-> TRUE, value |-> v]
Err(t) == [ok |-> FALSE, exc |-> t]

\* bool(x) of an Optional[str]: None and '' are falsy.
Truthy(o) == ~IsNone(o) /\ o.some # <<>>

(***************************************************************************)
(* str(int), int(str), float(str).                                         *)
(***************************************************************************)
Digit == {"0", "1", "2", "3", "4", "5", "6", "7", "8", "9"}
DigitVal == [c \in Digit |->
               CASE c = "0" -> 0 [] c = "1" -> 1 [] c = "2" -> 2 [] c = "3" -> 3
                 [] c = "4" -> 4 [] c = "5" -> 5 [] c = "6" -> 6 [] c = "7" -> 7
                 [] c = "8" -> 8 [] c = "9" -> 9]
DigitChar == [d \in 0..9 |-> CHOOSE c \in Digit : DigitVal[c] = d]

RECURSIVE NatStr(_)
NatStr(n) == IF n < 10 THEN <<DigitChar[n]>>
             ELSE NatStr(n \div 10) \o <<DigitChar[n % 10]>>
\* str(n) of an int
str_(n) == IF n < 0 THEN <<"-">> \o NatStr(-n) ELSE NatStr(n)

Front(s) == SubSeq(s, 1, Len(s) - 1)
RECURSIVE lstrip(_)
lstrip(s) == IF s # <<>> /\ Head(s) = " " THEN lstrip(Tail(s)) ELSE s
RECURSIVE rstrip(_)
rstrip(s) == IF s # <<>> /\ s[Len(s)] = " " THEN rstrip(Front(s)) ELSE s
strip(s) == rstrip(lstrip(s))

IsDigits(s) == s # <<>> /\ \A i \in 1..Len(s) : s[i] \in Digit
RECURSIVE DigitsVal(_)
DigitsVal(s) == IF s = <<>> THEN 0
                ELSE DigitsVal(Front(s)) * 10 + DigitVal[s[Len(s)]]
HasSign(s) == s # <<>> /\ Head(s) \in {"-", "+"}
Unsigned(s) == IF HasSign(s) THEN Tail(s) ELSE s
Signed(s, n) == IF s # <<>> /\ Head(s) = "-" THEN -n ELSE n

int_digits(t) ==
  IF IsDigits(Unsigned(t)) THEN Ok(Signed(t, DigitsVal(Unsigned(t)))) ELSE Err("ValueError")
\* int(s) of a str: surrounding whitespace, an optional sign, digits.
int_(s) == int_digits(strip(s))
\* int(o) of an Optional[str]: int(None) is a TypeError.
int_opt(o) == IF IsNone(o) THEN Err("TypeError") ELSE int_(o.some)

RECURSIVE Pow10(_)
Pow10(n) == IF n = 0 THEN 1 ELSE 10 * Pow10(n - 1)
RECURSIVE NormFloat(_, _)
NormFloat(m, e) == IF e > 0 /\ m % 10 = 0 THEN NormFloat(m \div 10, e - 1)
                   ELSE [m |-> m, e |-> e]
DotAt(s) == IF \E i \in 1..Len(s) : s[i] = "."
            THEN CHOOSE i \in 1..Len(s) : s[i] = "." /\ \A j \in 1..(i - 1) : s[j] # "."
            ELSE 0
\* the float written as sign t, integer digits ip and fraction digits fp
float_parts(t, ip, fp) ==
  IF /\ ip \o fp # <<>>
     /\ \A i \in 1..Len(ip) : ip[i] \in Digit
     /\ \A i \in 1..Len(fp) : fp[i] \in Digit
  THEN Ok(NormFloat(Signed(t, DigitsVal(ip) * Pow10(Len(fp)) + DigitsVal(fp)), Len(fp)))
  ELSE Err("ValueError")
float_split(t, u, k) ==
  float_parts(t, IF k = 0 THEN u ELSE SubSeq(u, 1, k - 1),
                 IF k = 0 THEN <<>> ELSE SubSeq(u, k + 1, Len(u)))
float_stripped(t) == float_split(t, Unsigned(t), DotAt(Unsigned(t)))
\* float(s) of a str: surrounding whitespace, an optional sign, digits with at
\* most one "." and at least one digit.
float_(s) == float_stripped(strip(s))
float_opt(o) == IF IsNone(o) THEN Err("TypeError") ELSE float_(o.some)

(***************************************************************************)
(* XML.  An element is [tag, attrib, text, children]: attrib is the        *)
(* dictionary of its attributes, text the character data before its first  *)
(* child (<<>> when there is none, which lxml reports as None) and         *)
(* children the child elements in document order.  A response body is      *)
(* well-formed XML with a root element, or it is not XML at all.           *)
(***************************************************************************)
Elem(tag, attrib, text, children) ==
  [tag |-> tag, attrib |-> attrib, text |-> text, children |-> children]
Leaf(tag, text) == Elem(tag, <<>>, text, <<>>)
Xml(root) == [wellformed |-> TRUE, root |-> root]
NotXml == [wellformed |-> FALSE]

\* etree.fromstring(response)
fromstring(body) == IF body.wellformed THEN Ok(body.root) ELSE Err("XMLSyntaxError")

RECURSIVE Flatten(_)
Flatten(ss) == IF ss = <<>> THEN <<>> ELSE Head(ss) \o Flatten(Tail(ss))
\* every element of the tree with the tag of its parent, in document order
RECURSIVE Walk(_, _)
Walk(e, ptag) ==
  <<[elem |-> e, parent |-> ptag]>>
    \o Flatten([i \in 1..Len(e.children) |-> Walk(e.children[i], e.tag)])
Elems(ws) == [i \in 1..Len(ws) |-> ws[i].elem]
\* tree.xpath("//tag")
xpath(tree, tag) == Elems(SelectSeq(Walk(tree, ""), LAMBDA w : w.elem.tag = tag))
\* tree.xpath("//ptag/tag")
xpath_child(tree, ptag, tag) ==
  Elems(SelectSeq(Walk(tree, ""), LAMBDA w : w.elem.tag = tag /\ w.parent = ptag))

\* element.findtext(tag): the text of the first child with that tag, '' when
\* that child has no text, None when there is no such child
findtext(e, tag) ==
  LET m == SelectSeq(e.children, LAMBDA c : c.tag = tag)
  IN IF m = <<>> THEN None ELSE Some(m[1].text)
\* element.text
text_(e) == IF e.text = <<>> THEN None ELSE Some(e.text)
\* element.attrib[k]
attrib(e, k) == IF k \in DOMAIN e.attrib THEN Ok(e.attrib[k]) ELSE Err("KeyError")
\* element.attrib.get(k)
attrib_get(e, k) == IF k \in DOMAIN e.attrib THEN Some(e.attrib[k]) ELSE None
\* o == s for an Optional[str] o and a str s
EqStr(o, s) == ~IsNone(o) /\ o.some = s

\* the first exception raised by a sequence of evaluations, in their order
FirstErr(rs) ==
  IF \E i \in 1..Len(rs) : ~rs[i].ok
  THEN rs[CHOOSE i \in 1..Len(rs) : ~rs[i].ok /\ \A j \in 1..(i - 1) : rs[j].ok]
  ELSE Ok(TRUE)
\* the values of a sequence of evaluations, or the first exception
Collect(rs) == IF FirstErr(rs).ok THEN Ok([i \in 1..Len(rs) |-> rs[i].value]) ELSE FirstErr(rs)
\* the rest of the body, F, runs on the value of r unless r raised
Bind(r, F(_)) == IF r.ok THEN F(r.value) ELSE r
\* E(x) if cond else None
IfElseNone(cond, r) == IF cond THEN Bind(r, LAMBDA v : Ok(Some(v))) ELSE Ok(None)
\* assert len(elements) == 1; element = elements[0]
single(els) == IF Len(els) # 1 THEN Err("AssertionError") ELSE Ok(els[1])
\* int(element.attrib[k]) and float(element.attrib[k])
int_attrib(e, k) == Bind(attrib(e, k), LAMBDA v : int_(v))
float_attrib(e, k) == Bind(attrib(e, k), LAMBDA v : float_(v))

(***************************************************************************)
(* Exceptions and the outcome of a call.                                   *)
(***************************************************************************)
Exc(type, cause) == [type |-> type, cause |-> cause]
Return(v) == [kind |-> "return", value |-> v]
Raise(e) == [kind |-> "raise", exc |-> e]

\* variant: a wrapper with `except ValueError` in place of `except Exception`
_wrap_value_errors_only(r) ==
  IF r.ok THEN Return(r.value)
  ELSE IF r.exc = "ValueError"
  THEN Raise(Exc("PlayerUnexpectedResponseError", Some(Exc(r.exc, None))))
  ELSE Raise(Exc(r.exc, None))
\* errors._wrap_in_unxpected_response_error: every Exception of the wrapped
\* function becomes PlayerUnexpectedResponseError from it
_wrap_in_unxpected_response_error(r) ==
  IF r.ok THEN Return(r.value)
  ELSE Raise(Exc("PlayerUnexpectedResponseError", Some(Exc(r.exc, None))))

\* variant: a wrapper that catches connection errors only
UnreachableCauses_connection_only == {"ClientConnectionError"}
\* variant: a wrapper that catches the parser's error as well
UnreachableCauses_with_parser ==
  {"TimeoutError", "ClientConnectionError", "PlayerUnexpectedResponseError"}
UnreachableCauses == {"TimeoutError", "ClientConnectionError"}
\* errors._wrap_in_unreachable_error: TimeoutError and
\* aiohttp.ClientConnectionError become PlayerUnreachableError from them;
\* everything else passes through
_wrap_in_unreachable_error(r) ==
  IF r.kind = "raise" /\ r.exc.type \in UnreachableCauses
  THEN Raise(Exc("PlayerUnreachableError", Some(r.exc)))
  ELSE r

PairedPlayer(ip, port) == [ip |-> ip, port |-> port]

\* PairedPlayer(ip=x.attrib["id"], port=int(x.attrib["port"]))
slave_player(x) ==
  Bind(attrib(x, "id"), LAMBDA id :
  Bind(int_attrib(x, "port"), LAMBDA port : Ok(PairedPlayer(id, port))))
\* [PairedPlayer(...) for x in slave_elements]
slave_list(xs) == Collect([i \in 1..Len(xs) |-> slave_player(xs[i])])

(***************************************************************************)
(* pyblu.parse.  Each parse function is the decorated function: its body   *)
(* gives the record or the first exception raised, in the order Python     *)
(* evaluates the body, and the decorator turns the exception into          *)
(* PlayerUnexpectedResponseError.                                          *)
(***************************************************************************)
parse_add_slave_body(response) ==
  Bind(fromstring(response), LAMBDA tree :
  slave_list(xpath_child(tree, "addSlave", "slave")))
parse_add_slave(response) == _wrap_in_unxpected_response_error(parse_add_slave_body(response))

\* parse_sync_status, lines 29-35: master
\* variant: no master unless the <master> has text
sync_master_with_text(master_elements) ==
  IF master_elements = <<>> \/ master_elements[1].text = <<>> THEN Ok(None)
  ELSE Bind(int_attrib(master_elements[1], "port"), LAMBDA port :
       Ok(Some(PairedPlayer(text_(master_elements[1]), port))))
sync_master(master_elements) ==
  IF master_elements = <<>> THEN Ok(None)
  ELSE Bind(int_attrib(master_elements[1], "port"), LAMBDA port :
       Ok(Some(PairedPlayer(text_(master_elements[1]), port))))
\* parse_sync_status, lines 37-40: slaves
\* variant: the list comprehension without the `if slave_elements:` around it
sync_slaves_unguarded(slave_elements) ==
  Bind(slave_list(slave_elements), LAMBDA l : Ok(Some(l)))
sync_slaves(slave_elements) ==
  IF slave_elements = <<>> THEN Ok(None)
  ELSE Bind(slave_list(slave_elements), LAMBDA l : Ok(Some(l)))
\* parse_sync_status, line 58: zone_slave
sync_zone_slave(el) == EqStr(attrib_get(el, "zoneMaster"), <<"t", "r", "u", "e">>)
\* parse_sync_status, lines 46-66: SyncStatus(...), rs the arguments that can raise
sync_status_record(el, master, slaves, rs) ==
  Bind(Collect(rs), LAMBDA v :
  Ok([etag |-> v[1], id |-> v[2], mac |-> v[3], name |-> v[4], image |-> v[5],
      initialized |-> EqStr(attrib_get(el, "initialized"), <<"t", "r", "u", "e">>),
      group |-> attrib_get(el, "group"),
      master |-> master, slaves |-> slaves,
      zone |-> attrib_get(el, "zone"),
      zone_master |-> EqStr(attrib_get(el, "zoneMaster"), <<"t", "r", "u", "e">>),
      zone_slave |-> sync_zone_slave(el),
      brand |-> v[6], model |-> v[7], model_name |-> v[8],
      mute_volume_db |-> v[9], mute_volume |-> v[10],
      volume_db |-> v[11], volume |-> v[12]]))
parse_sync_status_body(response) ==
  Bind(fromstring(response), LAMBDA tree :
  Bind(sync_master(xpath_child(tree, "SyncStatus", "master")), LAMBDA master :
  Bind(sync_slaves(xpath_child(tree, "SyncStatus", "slave")), LAMBDA slaves :
  Bind(single(xpath(tree, "SyncStatus")), LAMBDA el :
  sync_status_record(el, master, slaves,
    <<attrib(el, "etag"), attrib(el, "id"), attrib(el, "mac"), attrib(el, "name"),
      attrib(el, "icon"), attrib(el, "brand"), attrib(el, "model"),
      attrib(el, "modelName"),
      IfElseNone("muteDb" \in DOMAIN el.attrib, float_attrib(el, "muteDb")),
      IfElseNone("muteVolume" \in DOMAIN el.attrib, int_attrib(el, "muteVolume")),
      float_attrib(el, "db"), int_attrib(el, "volume")>>)))))
parse_sync_status(response) ==
  _wrap_in_unxpected_response_error(parse_sync_status_body(response))

\* parse_status, lines 83-91: x = findtext(new); if x is None: x = findtext(legacy)
\* variant: the legacy tag read first
status_alias_legacy_first(el, new, legacy) ==
  IF IsNone(findtext(el, legacy)) THEN findtext(el, new) ELSE findtext(el, legacy)
status_alias(el, new, legacy) ==
  IF IsNone(findtext(el, new)) THEN findtext(el, legacy) ELSE findtext(el, new)
\* int(findtext(tag)) if findtext(tag) else None
\* variant: None also for a text that int() does not take
status_opt_int_lenient(el, tag) ==
  IfElseNone(Truthy(findtext(el, tag)) /\ int_opt(findtext(el, tag)).ok,
             int_opt(findtext(el, tag)))
status_opt_int(el, tag) == IfElseNone(Truthy(findtext(el, tag)), int_opt(findtext(el, tag)))
\* float(findtext(tag)) if findtext(tag) else None
status_opt_float(el, tag) == IfElseNone(Truthy(findtext(el, tag)), float_opt(findtext(el, tag)))
\* parse_status, line 111: sleep
\* variant: the default for an absent <sleep> only
status_sleep_absent_only(el) ==
  IF IsNone(findtext(el, "sleep")) THEN Ok(0) ELSE int_opt(findtext(el, "sleep"))
status_sleep(el) ==
  IF Truthy(findtext(el, "sleep")) THEN int_opt(findtext(el, "sleep")) ELSE Ok(0)
\* parse_status, line 108: seconds
status_seconds(el) == float_opt(findtext(el, "secs"))
\* parse_status, line 105: mute
status_mute(el) == EqStr(findtext(el, "mute"), <<"1">>)
\* parse_status, lines 93-116: Status(...), rs the arguments that can raise
status_record(el, rs) ==
  Bind(Collect(rs), LAMBDA v :
  Ok([etag |-> v[1],
      input_id |-> findtext(el, "inputId"),
      service |-> findtext(el, "service"),
      state |-> findtext(el, "state"),
      shuffle |-> EqStr(findtext(el, "shuffle"), <<"1">>),
      album |-> status_alias(el, "album", "title3"),
      artist |-> status_alias(el, "artist", "title2"),
      name |-> status_alias(el, "name", "title1"),
      image |-> findtext(el, "image"),
      volume |-> v[2], volume_db |-> v[3],
      mute |-> status_mute(el),
      mute_volume |-> v[4], mute_volume_db |-> v[5],
      seconds |-> v[6], total_seconds |-> v[7],
      can_seek |-> EqStr(findtext(el, "canSeek"), <<"1">>),
      sleep |-> v[8],
      group_name |-> findtext(el, "groupName"),
      group_volume |-> v[9],
      indexing |-> EqStr(findtext(el, "indexing"), <<"1">>),
      stream_url |-> findtext(el, "streamUrl")]))
parse_status_body(response) ==
  Bind(fromstring(response), LAMBDA tree :
  Bind(single(xpath(tree, "status")), LAMBDA el :
  status_record(el,
    <<attrib(el, "etag"), int_opt(findtext(el, "volume")), float_opt(findtext(el, "db")),
      status_opt_int(el, "muteVolume"), status_opt_float(el, "muteDb"),
      status_seconds(el), status_opt_float(el, "totlen"), status_sleep(el),
      status_opt_int(el, "groupVolume")>>)))
parse_status(response) == _wrap_in_unxpected_response_error(parse_status_body(response))

\* Volume(volume=int(el.text), db=float(el.attrib["db"]), mute=...)
volume_record(el) ==
  Bind(int_opt(text_(el)), LAMBDA v :
  Bind(float_attrib(el, "db"), LAMBDA db :
  Ok([volume |-> v, db |-> db, mute |-> EqStr(attrib_get(el, "mute"), <<"1">>)])))
parse_volume_body(response) ==
  Bind(fromstring(response), LAMBDA tree :
  Bind(single(xpath(tree, "volume")), LAMBDA el : volume_record(el)))
parse_volume(response) == _wrap_in_unxpected_response_error(parse_volume_body(response))

\* PlayQueue(id=..., modified=..., length=..., shuffle=...)
play_queue_record(el) ==
  Bind(attrib(el, "id"), LAMBDA id :
  Bind(int_attrib(el, "length"), LAMBDA length :
  Ok([id |-> id, modified |-> EqStr(attrib_get(el, "modified"), <<"1">>),
      length |-> length, shuffle |-> EqStr(attrib_get(el, "shuffle"), <<"1">>)])))
parse_play_queue_body(response) ==
  Bind(fromstring(response), LAMBDA tree :
  Bind(single(xpath(tree, "playlist")), LAMBDA el : play_queue_record(el)))
parse_play_queue(response) ==
  _wrap_in_unxpected_response_error(parse_play_queue_body(response))

\* Preset(name=..., id=..., url=..., image=..., volume=...) of one <preset>
preset_of(x) ==
  Bind(attrib(x, "name"), LAMBDA name :
  Bind(int_attrib(x, "id"), LAMBDA id :
  Bind(attrib(x, "url"), LAMBDA url :
  Bind(IfElseNone(Truthy(attrib_get(x, "volume")), int_opt(attrib_get(x, "volume"))),
       LAMBDA v :
  Ok([name |-> name, id |-> id, url |-> url, image |-> attrib_get(x, "image"),
      volume |-> v])))))
\* variant: the list built back to front
preset_list_reversed(xs) == Collect([i \in 1..Len(xs) |-> preset_of(xs[Len(xs) + 1 - i])])
preset_list(xs) == Collect([i \in 1..Len(xs) |-> preset_of(xs[i])])
parse_presets_body(response) ==
  Bind(fromstring(response), LAMBDA tree :
  preset_list(xpath_child(tree, "presets", "preset")))
parse_presets(response) == _wrap_in_unxpected_response_error(parse_presets_body(response))

parse_state_body(response) ==
  Bind(fromstring(response), LAMBDA tree :
  Bind(single(xpath(tree, "state")), LAMBDA el : Ok(text_(el))))
parse_state(response) == _wrap_in_unxpected_response_error(parse_state_body(response))

\* int(sleep_element.text) if sleep_element.text else 0
sleep_value(el) == IF Truthy(text_(el)) THEN int_opt(text_(el)) ELSE Ok(0)
parse_sleep_body(response) ==
  Bind(fromstring(response), LAMBDA tree :
  Bind(single(xpath(tree, "sleep")), LAMBDA el : sleep_value(el)))
parse_sleep(response) == _wrap_in_unxpected_response_error(parse_sleep_body(response))

\* urllib.parse.unquote on the escapes that occur in the model's documents:
\* %3A is ":", %2F is "/", %25 is "%"; any other "%" stays as it is
PercentEscapes == {<<"3", "A">>, <<"2", "F">>, <<"2", "5">>}
PercentChar(h) == CASE h = <<"3", "A">> -> ":" [] h = <<"2", "F">> -> "/" [] h = <<"2", "5">> -> "%"
RECURSIVE unquote(_)
unquote(s) ==
  IF s = <<>> THEN <<>>
  ELSE IF Head(s) = "%" /\ Len(s) >= 3 /\ SubSeq(s, 2, 3) \in PercentEscapes
       THEN <<PercentChar(SubSeq(s, 2, 3))>> \o unquote(SubSeq(s, 4, Len(s)))
  ELSE <<Head(s)>> \o unquote(Tail(s))

\* Input(id=..., text=..., image=..., url=unquote(...)) of one <item>
input_of(x) ==
  Bind(attrib(x, "id"), LAMBDA id :
  Bind(attrib(x, "text"), LAMBDA text :
  Bind(attrib(x, "image"), LAMBDA image :
  Bind(attrib(x, "URL"), LAMBDA url :
  Ok([id |-> id, text |-> text, image |-> image, url |-> unquote(url)])))))
input_list(xs) == Collect([i \in 1..Len(xs) |-> input_of(xs[i])])
parse_inputs_body(response) ==
  Bind(fromstring(response), LAMBDA tree :
  input_list(xpath_child(tree, "radiotime", "item")))
parse_inputs(response) == _wrap_in_unxpected_response_error(parse_inputs_body(response))

(***************************************************************************)
(* pyblu._parse.parse_slave_list, the earlier parser, on what xmltodict    *)
(* gives for the key "slave": nothing for no <slave>, one dictionary for   *)
(* one <slave>, a list of dictionaries for several.                        *)
(***************************************************************************)
PyDict(d) == [dict |-> d]
PyList(l) == [list |-> l]
IsDict(v) == "dict" \in DOMAIN v
IsList(v) == "list" \in DOMAIN v
\* slave["@id"], slave["@port"] of one dictionary of the list
slave_of_dict(d) ==
  Bind(IF "@id" \in DOMAIN d THEN Ok(d["@id"]) ELSE Err("KeyError"), LAMBDA ip :
  Bind(IF "@port" \in DOMAIN d THEN int_(d["@port"]) ELSE Err("KeyError"), LAMBDA port :
  Ok(PairedPlayer(ip, port))))
\* match slaves_raw: case {"@id": ip, "@port": port} / case [*slaves] / case _
parse_slave_list(slaves_raw) ==
  IF IsDict(slaves_raw) /\ {"@id", "@port"} \subseteq DOMAIN slaves_raw.dict
  THEN Bind(int_(slaves_raw.dict["@port"]), LAMBDA port :
       Ok(Some(<<PairedPlayer(slaves_raw.dict["@id"], port)>>)))
  ELSE IF IsList(slaves_raw)
  THEN Bind(Collect([i \in 1..Len(slaves_raw.list) |-> slave_of_dict(slaves_raw.list[i])]),
            LAMBDA l : Ok(Some(l)))
  ELSE Ok(None)
\* xmltodict: an attribute k of an element is the key "@k" of its dictionary
AtKey(k) == CASE k = "id" -> "@id" [] k = "port" -> "@port"
xmltodict_attribs(a) ==
  [key \in {AtKey(k) : k \in DOMAIN a} |-> a[CHOOSE k \in DOMAIN a : AtKey(k) = key]]
\* xmltodict: the value under "slave" for the <slave> children of SyncStatus,
\* each of which has attributes
xmltodict_slaves(el) ==
  LET kids == SelectSeq(el.children, LAMBDA c : c.tag = "slave")
  IN IF kids = <<>> THEN None
     ELSE IF Len(kids) = 1 THEN PyDict(xmltodict_attribs(kids[1].attrib))
     ELSE PyList([i \in 1..Len(kids) |-> xmltodict_attribs(kids[i].attrib)])
\* a function without a decorator returns or raises as its body does
undecorated(r) == IF r.ok THEN Return(r.value) ELSE Raise(Exc(r.exc, None))

(***************************************************************************)
(* pyblu.player.Player.  The transport (aiohttp) answers one request with  *)
(* a failure it raises or with a response, a status and a body.            *)
(***************************************************************************)
\* aiohttp's ClientResponse.raise_for_status raises ClientResponseError when
\* the status is 400 or more
raise_for_status(status) == status >= 400

\* the parse function a Player method hands the body to
parse(name, body) ==
  CASE name = "parse_status" -> parse_status(body)
    [] name = "parse_sync_status" -> parse_sync_status(body)
    [] name = "parse_volume" -> parse_volume(body)
    [] name = "parse_state" -> parse_state(body)
    [] name = "parse_add_slave" -> parse_add_slave(body)
    [] name = "parse_play_queue" -> parse_play_queue(body)
    [] name = "parse_sleep" -> parse_sleep(body)
    [] name = "parse_presets" -> parse_presets(body)
    [] name = "parse_inputs" -> parse_inputs(body)
\* variant: the body parsed without raise_for_status before it
exchange_unchecked(net, parserName) ==
  IF net.kind = "fail"
  THEN [parsed |-> FALSE, outcome |-> Raise(Exc(net.exc, None))]
  ELSE IF parserName = "none"
  THEN [parsed |-> FALSE, outcome |-> Return(None)]
  ELSE [parsed |-> TRUE, outcome |-> parse(parserName, net.body)]
\* async with self._session.get(...) as response:
\*     response.raise_for_status()
\*     response_data = await response.read()
\*     return parse_x(response_data)
\* (skip, back and load_preset stop after raise_for_status and return None)
exchange(net, parserName) ==
  IF net.kind = "fail"
  THEN [parsed |-> FALSE, outcome |-> Raise(Exc(net.exc, None))]
  ELSE IF raise_for_status(net.status)
  THEN [parsed |-> FALSE, outcome |-> Raise(Exc("ClientResponseError", None))]
  ELSE IF parserName = "none"
  THEN [parsed |-> FALSE, outcome |-> Return(None)]
  ELSE [parsed |-> TRUE, outcome |-> parse(parserName, net.body)]

\* used_timeout = timeout if timeout is not None else self._default_timeout
used_timeout(timeout, default) == IF IsNone(timeout) THEN default ELSE timeout.some
\* timeout=aiohttp.ClientTimeout(total=used_timeout)
ClientTimeout(total) == Some([total |-> total])
\* the timeout keyword of sync_status's session.get: there is none
sync_status_timeout(used) == None

\* variant: the comparison made strict
poll_timeout_rejected_strict(poll_timeout, used) == poll_timeout > used
\* if poll_timeout >= used_timeout: raise ValueError
poll_timeout_rejected(poll_timeout, used) == poll_timeout >= used
\* variant: `if etag:` in place of `if etag is not None:`
long_poll_truthy(etag) == Truthy(etag)
\* if etag is not None: (the long-poll branch)
long_poll(etag) == ~IsNone(etag)
\* params["etag"] = etag; params["timeout"] = str(poll_timeout)
poll_params(etag, poll_timeout) ==
  IF long_poll(etag) THEN [etag |-> etag.some, timeout |-> str_(poll_timeout)] ELSE <<>>

\* "1" if b else "0"
bool_param(b) == IF b THEN <<"1">> ELSE <<"0">>
\* variant: `if level:` in place of `if level is not None:`, for each argument
volume_params_truthy(level, mute, tell_slaves) ==
  (IF ~IsNone(level) /\ level.some # 0 THEN [level |-> str_(level.some)] ELSE <<>>)
    @@ (IF ~IsNone(mute) /\ mute.some THEN [mute |-> bool_param(mute.some)] ELSE <<>>)
    @@ (IF ~IsNone(tell_slaves) /\ tell_slaves.some
        THEN [tell_slaves |-> bool_param(tell_slaves.some)] ELSE <<>>)
\* the params of Player.volume
volume_params(level, mute, tell_slaves) ==
  (IF ~IsNone(level) THEN [level |-> str_(level.some)] ELSE <<>>)
    @@ (IF ~IsNone(mute) THEN [mute |-> bool_param(mute.some)] ELSE <<>>)
    @@ (IF ~IsNone(tell_slaves) THEN [tell_slaves |-> bool_param(tell_slaves.some)] ELSE <<>>)
\* the params of Player.play
play_params(seek) == IF ~IsNone(seek) THEN [seek |-> seek.some] ELSE <<>>
\* the params of Player.pause
pause_params(toggle) == IF ~IsNone(toggle) THEN [toggle |-> <<"1">>] ELSE <<>>
\* sep.join(strs)
RECURSIVE join(_, _)
join(sep, ss) == IF ss = <<>> THEN <<>>
                 ELSE IF Len(ss) = 1 THEN ss[1]
                 ELSE ss[1] \o sep \o join(sep, Tail(ss))
\* the params of add_slaves and remove_slaves
\* variant: the ports joined back to front
slaves_params_ports_reversed(slaves) ==
  [slaves |-> join(<<",">>, [i \in 1..Len(slaves) |-> slaves[i].ip]),
   ports |-> join(<<",">>, [i \in 1..Len(slaves) |-> str_(slaves[Len(slaves) + 1 - i].port)])]
slaves_params(slaves) ==
  [slaves |-> join(<<",">>, [i \in 1..Len(slaves) |-> slaves[i].ip]),
   ports |-> join(<<",">>, [i \in 1..Len(slaves) |-> str_(slaves[i].port)])]

Request(path, params, timeout) == [path |-> path, params |-> params, timeout |-> timeout]

\* one decorated Player method that passed its precondition: the single
\* session.get, the exchange x, and _wrap_in_unreachable_error around both
finish(op, args, request, parserName, net, x) ==
  [op |-> op, args |-> args, requests |-> <<request>>, net |-> Some(net),
   parser |-> parserName, parsed |-> x.parsed,
   result |-> _wrap_in_unreachable_error(x.outcome)]
call(op, args, request, parserName, net) ==
  finish(op, args, request, parserName, net, exchange(net, parserName))
\* status and sync_status when the precondition fails: ValueError, no request
rejected(op, args) ==
  [op |-> op, args |-> args, requests |-> <<>>, net |-> None,
   parser |-> "none", parsed |-> FALSE,
   result |-> _wrap_in_unreachable_error(Raise(Exc("ValueError", None)))]
NoCall == [op |-> "none"]

\* Player.status
status(etag, poll_timeout, timeout, default, net) ==
  LET used == used_timeout(timeout, default)
      args == [etag |-> etag, poll_timeout |-> poll_timeout, timeout |-> timeout]
  IN IF long_poll(etag) /\ poll_timeout_rejected(poll_timeout, used)
     THEN rejected("status", args)
     ELSE call("status", args,
               Request("/Status", poll_params(etag, poll_timeout), ClientTimeout(used)),
               "parse_status", net)
\* Player.sync_status
sync_status(etag, poll_timeout, timeout, default, net) ==
  LET used == used_timeout(timeout, default)
      args == [etag |-> etag, poll_timeout |-> poll_timeout, timeout |-> timeout]
  IN IF long_poll(etag) /\ poll_timeout_rejected(poll_timeout, used)
     THEN rejected("sync_status", args)
     ELSE call("sync_status", args,
               Request("/SyncStatus", poll_params(etag, poll_timeout), sync_status_timeout(used)),
               "parse_sync_status", net)
\* Player.volume
volume(level, mute, tell_slaves, timeout, default, net) ==
  call("volume", [level |-> level, mute |-> mute, tell_slaves |-> tell_slaves, timeout |-> timeout],
       Request("/Volume", volume_params(level, mute, tell_slaves),
               ClientTimeout(used_timeout(timeout, default))),
       "parse_volume", net)
\* Player.play
play(seek, timeout, default, net) ==
  call("play", [seek |-> seek, timeout |-> timeout],
       Request("/Play", play_params(seek), ClientTimeout(used_timeout(timeout, default))),
       "parse_state", net)
\* Player.play_url
play_url(url, timeout, default, net) ==
  call("play_url", [url |-> url, timeout |-> timeout],
       Request("/Play", [url |-> url], ClientTimeout(used_timeout(timeout, default))),
       "parse_state", net)
\* Player.pause
pause(toggle, timeout, default, net) ==
  call("pause", [toggle |-> toggle, timeout |-> timeout],
       Request("/Pause", pause_params(toggle), ClientTimeout(used_timeout(timeout, default))),
       "parse_state", net)
\* Player.stop
stop(timeout, default, net) ==
  call("stop", [timeout |-> timeout],
       Request("/Stop", <<>>, ClientTimeout(used_timeout(timeout, default))),
       "parse_state", net)
\* variant: skip sent to the path of back
skip_on_back_path(timeout, default, net) ==
  call("skip", [timeout |-> timeout],
       Request("/Back", <<>>, ClientTimeout(used_timeout(timeout, default))),
       "none", net)
\* Player.skip
skip(timeout, default, net) ==
  call("skip", [timeout |-> timeout],
       Request("/Skip", <<>>, ClientTimeout(used_timeout(timeout, default))),
       "none", net)
\* Player.back
back(timeout, default, net) ==
  call("back", [timeout |-> timeout],
       Request("/Back", <<>>, ClientTimeout(used_timeout(timeout, default))),
       "none", net)
\* Player.add_slave
add_slave(ip, port, timeout, default, net) ==
  call("add_slave", [ip |-> ip, port |-> port, timeout |-> timeout],
       Request("/AddSlave", [slave |-> ip, port |-> port],
               ClientTimeout(used_timeout(timeout, default))),
       "parse_add_slave", net)
\* Player.add_slaves
add_slaves(slaves, timeout, default, net) ==
  call("add_slaves", [slaves |-> slaves, timeout |-> timeout],
       Request("/AddSlave", slaves_params(slaves),
               ClientTimeout(used_timeout(timeout, default))),
       "parse_add_slave", net)
\* Player.remove_slave
remove_slave(ip, port, timeout, default, net) ==
  call("remove_slave", [ip |-> ip, port |-> port, timeout |-> timeout],
       Request("/RemoveSlave", [slave |-> ip, port |-> port],
               ClientTimeout(used_timeout(timeout, default))),
       "parse_sync_status", net)
\* Player.remove_slaves
remove_slaves(slaves, timeout, default, net) ==
  call("remove_slaves", [slaves |-> slaves, timeout |-> timeout],
       Request("/RemoveSlave", slaves_params(slaves),
               ClientTimeout(used_timeout(timeout, default))),
       "parse_sync_status", net)
\* Player.shuffle
shuffle(on, timeout, default, net) ==
  call("shuffle", [shuffle |-> on, timeout |-> timeout],
       Request("/Shuffle", [shuffle |-> bool_param(on)],
               ClientTimeout(used_timeout(timeout, default))),
       "parse_play_queue", net)
\* Player.clear
clear(timeout, default, net) ==
  call("clear", [timeout |-> timeout],
       Request("/Clear", <<>>, ClientTimeout(used_timeout(timeout, default))),
       "parse_play_queue", net)
\* Player.sleep_timer
sleep_timer(timeout, default, net) ==
  call("sleep_timer", [timeout |-> timeout],
       Request("/Sleep", <<>>, ClientTimeout(used_timeout(timeout, default))),
       "parse_sleep", net)
\* Player.presets
presets(timeout, default, net) ==
  call("presets", [timeout |-> timeout],
       Request("/Presets", <<>>, ClientTimeout(used_timeout(timeout, default))),
       "parse_presets", net)
\* Player.load_preset
load_preset(preset_id, timeout, default, net) ==
  call("load_preset", [preset_id |-> preset_id, timeout |-> timeout],
       Request("/Preset", [id |-> preset_id], ClientTimeout(used_timeout(timeout, default))),
       "none", net)
\* Player.inputs
inputs(timeout, default, net) ==
  call("inputs", [timeout |-> timeout],
       Request("/RadioBrowse", [service |-> <<"C", "a", "p", "t", "u", "r", "e">>],
               ClientTimeout(used_timeout(timeout, default))),
       "parse_inputs", net)

\* Player.__init__, lines 26-31: the session is owned when none is passed
init_session_owned(session) == IsNone(session)
\* variant: close() without the ownership test
close_unconditional(owned, closed) == TRUE
\* Player.close: the session is closed if it is owned
close(owned, closed) == IF owned THEN TRUE ELSE closed
\* variant: __aexit__ that closes only when the body raised nothing
aexit_on_success(owned, closed, exc) == IF IsNone(exc) THEN close(owned, closed) ELSE closed
\* Player.__aexit__(*args): close(), whatever the exception
aexit(owned, closed, exc) == close(owned, closed)

(***************************************************************************)
(* The documents and arguments the model draws from.                       *)
(***************************************************************************)
TRUE_ == <<"t", "r", "u", "e">>
StatusBase == <<Leaf("state", <<"p", "l", "a", "y">>), Leaf("volume", <<"1", "0">>),
                Leaf("db", <<"-", "2", "0", ".", "1">>), Leaf("secs", <<"1", "0">>)>>
StatusDoc(children) == Xml(Elem("status", [etag |-> <<"e", "1">>], <<>>, children))
SyncStatusAttrs ==
  [etag |-> <<"7", "0", "7">>, id |-> <<"i">>, mac |-> <<"m">>, name |-> <<"N">>,
   icon |-> <<"p">>, brand |-> <<"B">>, model |-> <<"M">>, modelName |-> <<"O">>,
   db |-> <<"-", "1", "7", ".", "1">>, volume |-> <<"2", "9">>]
SyncStatusDoc(attrs, children) == Xml(Elem("SyncStatus", attrs, <<>>, children))
Slave(id, port) == Elem("slave", [id |-> id, port |-> port], <<>>, <<>>)

SampleOk(parserName) ==
  CASE parserName = "parse_status" -> StatusDoc(StatusBase)
    [] parserName = "parse_sync_status" ->
         SyncStatusDoc(SyncStatusAttrs, <<Slave(<<"a">>, str_(DefaultPort))>>)
    [] parserName = "parse_volume" ->
         Xml(Elem("volume", [db |-> <<"-", "2", "0", ".", "0">>, mute |-> <<"0">>],
                  <<"1", "0">>, <<>>))
    [] parserName = "parse_state" -> Xml(Leaf("state", <<"p", "l", "a", "y">>))
    [] parserName = "parse_add_slave" ->
         Xml(Elem("addSlave", <<>>, <<>>, <<Slave(<<"a">>, str_(DefaultPort))>>))
    [] parserName = "parse_play_queue" ->
         Xml(Elem("playlist", [id |-> <<"1">>, modified |-> <<"1">>,
                               length |-> <<"2", "3">>, shuffle |-> <<"1">>], <<>>, <<>>))
    [] parserName = "parse_sleep" -> Xml(Leaf("sleep", <<"1", "5">>))
    [] parserName = "parse_presets" ->
         Xml(Elem("presets", <<>>, <<>>,
                  <<Elem("preset", [name |-> <<"P">>, id |-> <<"1">>, url |-> <<"u">>],
                         <<>>, <<>>)>>))
    [] parserName = "parse_inputs" ->
         Xml(Elem("radiotime", <<>>, <<>>,
                  <<Elem("item", [id |-> <<"i">>, text |-> <<"T">>, image |-> <<"p">>,
                                  URL |-> <<"C", "%", "3", "A", "1">>], <<>>, <<>>)>>))
\* what a device may send as the body of a response: the document of the
\* operation, a document of another kind, or no XML at all
\* an <addSlave> answer that lists b in front of a
AddSlaveAnswer ==
  Xml(Elem("addSlave", <<>>, <<>>,
           <<Slave(<<"b">>, <<"8", "0">>), Slave(<<"a">>, str_(DefaultPort))>>))
SampleBodies(parserName) ==
  IF parserName = "none" THEN {NotXml}
  ELSE IF parserName = "parse_add_slave"
  THEN {NotXml, Xml(Leaf("error", <<"x">>)), SampleOk(parserName), AddSlaveAnswer}
  ELSE {NotXml, Xml(Leaf("error", <<"x">>)), SampleOk(parserName)}

Statuses == {200, 304, 404, 500}
NetFailures == {"TimeoutError", "ClientConnectionError", "ClientPayloadError"}
Nets(parserName) ==
  {[kind |-> "fail", exc |-> e] : e \in NetFailures}
    \cup {[kind |-> "response", status |-> st, body |-> b] :
            st \in Statuses, b \in SampleBodies(parserName)}

TimeoutArgs == {None} \cup {Some(t) : t \in 0..MaxTimeout}
PollTimeouts == (0..MaxTimeout) \cup {DefaultPollTimeout}
DefaultTimeouts == {1, DefaultTimeout}
Etags == {None, Some(<<>>), Some(<<"e", "1">>)}
OptBools == {None, Some(TRUE), Some(FALSE)}
Levels == {None, Some(0)}
Seeks == {None, Some(0), Some(30)}
Ports == {DefaultPort, 80}
Players == {PairedPlayer(<<"a">>, DefaultPort), PairedPlayer(<<"b">>, 80)}
SlaveLists == UNION {[1..n -> Players] : n \in 0..MaxSlaves}
Sessions == {None, Some("session")}

(***************************************************************************)
(* The caller: it constructs a Player, may enter and leave `async with`,   *)
(* may call close(), and awaits one method at a time; a method is called   *)
(* on a session that is open.                                              *)
(***************************************************************************)
Init ==
  /\ \E session \in Sessions : session_owned = init_session_owned(session)
  /\ default_timeout \in DefaultTimeouts
  /\ session_closed = FALSE
  /\ scope = "plain"
  /\ close_called = FALSE
  /\ exit_exc = None
  /\ last = NoCall
  /\ parser = "none" /\ doc = NotXml /\ parsed = None

Idle == ~session_closed /\ last.op = "none"
Does(rec) ==
  /\ last' = rec
  /\ UNCHANGED <<session_owned, default_timeout, session_closed, scope, close_called,
                 exit_exc, parser, doc, parsed>>

Status ==
  /\ Idle
  /\ \E etag \in Etags, poll_timeout \in PollTimeouts, timeout \in TimeoutArgs,
        net \in Nets("parse_status") :
       Does(status(etag, poll_timeout, timeout, default_timeout, net))
SyncStatus ==
  /\ Idle
  /\ \E etag \in Etags, poll_timeout \in PollTimeouts, timeout \in TimeoutArgs,
        net \in Nets("parse_sync_status") :
       Does(sync_status(etag, poll_timeout, timeout, default_timeout, net))
Volume ==
  /\ Idle
  /\ \E level \in Levels, mute \in OptBools, tell_slaves \in OptBools,
        timeout \in TimeoutArgs, net \in Nets("parse_volume") :
       Does(volume(level, mute, tell_slaves, timeout, default_timeout, net))
Play ==
  /\ Idle
  /\ \E seek \in Seeks, timeout \in TimeoutArgs, net \in Nets("parse_state") :
       Does(play(seek, timeout, default_timeout, net))
PlayUrl ==
  /\ Idle
  /\ \E timeout \in TimeoutArgs, net \in Nets("parse_state") :
       Does(play_url(<<"C", ":", "1">>, timeout, default_timeout, net))
Pause ==
  /\ Idle
  /\ \E toggle \in OptBools, timeout \in TimeoutArgs, net \in Nets("parse_state") :
       Does(pause(toggle, timeout, default_timeout, net))
Stop ==
  /\ Idle
  /\ \E timeout \in TimeoutArgs, net \in Nets("parse_state") :
       Does(stop(timeout, default_timeout, net))
Skip ==
  /\ Idle
  /\ \E timeout \in TimeoutArgs, net \in Nets("none") :
       Does(skip(timeout, default_timeout, net))
Back ==
  /\ Idle
  /\ \E timeout \in TimeoutArgs, net \in Nets("none") :
       Does(back(timeout, default_timeout, net))
AddSlave ==
  /\ Idle
  /\ \E port \in Ports, timeout \in TimeoutArgs, net \in Nets("parse_add_slave") :
       Does(add_slave(<<"a">>, port, timeout, default_timeout, net))
AddSlaves ==
  /\ Idle
  /\ \E slaves \in SlaveLists, timeout \in TimeoutArgs, net \in Nets("parse_add_slave") :
       Does(add_slaves(slaves, timeout, default_timeout, net))
RemoveSlave ==
  /\ Idle
  /\ \E port \in Ports, timeout \in TimeoutArgs, net \in Nets("parse_sync_status") :
       Does(remove_slave(<<"a">>, port, timeout, default_timeout, net))
RemoveSlaves ==
  /\ Idle
  /\ \E slaves \in SlaveLists, timeout \in TimeoutArgs, net \in Nets("parse_sync_status") :
       Does(remove_slaves(slaves, timeout, default_timeout, net))
Shuffle ==
  /\ Idle
  /\ \E on \in BOOLEAN, timeout \in TimeoutArgs, net \in Nets("parse_play_queue") :
       Does(shuffle(on, timeout, default_timeout, net))
Clear ==
  /\ Idle
  /\ \E timeout \in TimeoutArgs, net \in Nets("parse_play_queue") :
       Does(clear(timeout, default_timeout, net))
SleepTimer ==
  /\ Idle
  /\ \E timeout \in TimeoutArgs, net \in Nets("parse_sleep") :
       Does(sleep_timer(timeout, default_timeout, net))
Presets ==
  /\ Idle
  /\ \E timeout \in TimeoutArgs, net \in Nets("parse_presets") :
       Does(presets(timeout, default_timeout, net))
LoadPreset ==
  /\ Idle
  /\ \E preset_id \in {1, 2}, timeout \in TimeoutArgs, net \in Nets("none") :
       Does(load_preset(preset_id, timeout, default_timeout, net))
Inputs ==
  /\ Idle
  /\ \E timeout \in TimeoutArgs, net \in Nets("parse_inputs") :
       Does(inputs(timeout, default_timeout, net))

\* the caller takes the value or handles the exception and goes on
Resume ==
  /\ last.op # "none"
  /\ scope # "exited"
  /\ last' = NoCall
  /\ UNCHANGED <<session_owned, default_timeout, session_closed, scope, close_called,
                 exit_exc, parser, doc, parsed>>
\* await player.close()
Close ==
  /\ session_closed' = close(session_owned, session_closed)
  /\ close_called' = TRUE
  /\ UNCHANGED <<session_owned, default_timeout, scope, exit_exc, last, parser, doc, parsed>>
\* async with player: (__aenter__ returns self)
AEnter ==
  /\ scope = "plain" /\ ~close_called /\ last.op = "none"
  /\ scope' = "with"
  /\ UNCHANGED <<session_owned, default_timeout, session_closed, close_called, exit_exc,
                 last, parser, doc, parsed>>
\* the exception that leaves the body of the `async with`: the one the last
\* awaited method raised, or none, or one the caller's own code raised
ExitExcs ==
  IF last.op # "none" /\ last.result.kind = "raise"
  THEN {Some(last.result.exc)}
  ELSE {None, Some(Exc("Exception", None))}
\* leaving the `async with`: __aexit__(exc_type, exc, tb)
AExit ==
  /\ scope = "with"
  /\ \E exc \in ExitExcs :
       /\ exit_exc' = exc
       /\ session_closed' = aexit(session_owned, session_closed, exc)
  /\ scope' = "exited"
  /\ UNCHANGED <<session_owned, default_timeout, close_called, last, parser, doc, parsed>>

(***************************************************************************)
(* The parse functions on their own: a caller hands one document to one    *)
(* parse function and takes the result.                                    *)
(***************************************************************************)
Presence == {"absent", "empty", "text"}
TagChar(tag) ==
  CASE tag = "name" -> "N" [] tag = "title1" -> "T" [] tag = "artist" -> "A"
    [] tag = "title2" -> "U" [] tag = "album" -> "B" [] tag = "title3" -> "V"
\* no element, <tag/>, or <tag>c</tag>
OptLeaf(tag, presence) ==
  CASE presence = "absent" -> <<>>
    [] presence = "empty" -> <<Leaf(tag, <<>>)>>
    [] presence = "text" -> <<Leaf(tag, <<TagChar(tag)>>)>>
AliasPair(new, legacy, pn, pl, legacyFirst) ==
  IF legacyFirst THEN OptLeaf(legacy, pl) \o OptLeaf(new, pn)
  ELSE OptLeaf(new, pn) \o OptLeaf(legacy, pl)
StatusAliasDocs ==
  {StatusDoc(StatusBase \o AliasPair("name", "title1", p[1], p[2], lf)
                        \o AliasPair("artist", "title2", p[3], p[4], lf)
                        \o AliasPair("album", "title3", p[5], p[6], lf)) :
     p \in [1..6 -> Presence], lf \in BOOLEAN}

\* <slave> elements: two well-formed ones, one with a port that is no number,
\* one without a port
SlaveElems == {Slave(<<"a">>, str_(DefaultPort)), Slave(<<"b">>, <<"8", "0">>),
               Slave(<<"c">>, <<"x">>),
               Elem("slave", [id |-> <<"d">>], <<>>, <<>>)}
SlaveElemLists == UNION {[1..n -> SlaveElems] : n \in 0..MaxSlaves}
Master == Elem("master", [port |-> str_(DefaultPort)], <<"1", ".", "2">>, <<>>)
\* children of SyncStatus that are no <slave>: none, <pairWithSub/> in front,
\* or a <zone> that holds a <slave> of its own
OtherChildren == {<<>>, <<Leaf("pairWithSub", <<>>)>>,
                  <<Elem("zone", <<>>, <<>>, <<Slave(<<"z">>, <<"1">>)>>)>>}
SlaveDocs ==
  {SyncStatusDoc(SyncStatusAttrs, other \o master \o slaves) :
     other \in OtherChildren, master \in {<<>>, <<Master>>},
     slaves \in SlaveElemLists}

\* <master> elements: with text and port, without text, with a port that is
\* no number, without a port
MasterElems == {Master, Elem("master", [port |-> <<"8", "0">>], <<>>, <<>>),
                Elem("master", [port |-> <<"x">>], <<"1", ".", "2">>, <<>>),
                Leaf("master", <<"1", ".", "3">>)}
MasterElemLists == UNION {[1..n -> MasterElems] : n \in 0..2}
MasterDocs ==
  {SyncStatusDoc(SyncStatusAttrs, other \o masters \o slaves) :
     other \in OtherChildren, masters \in MasterElemLists,
     slaves \in {<<>>, <<Slave(<<"a">>, <<"8", "0">>)>>}}

\* texts that are no number
BadTexts == {<<"x">>, <<"1", "x">>}
\* what a <sleep> may hold: nothing, a number, or no number
SleepTexts == {<<>>, <<"0">>, <<"1", "5">>} \cup BadTexts
StatusSleepDocs ==
  {StatusDoc(StatusBase)} \cup {StatusDoc(StatusBase \o <<Leaf("sleep", t)>>) : t \in SleepTexts}

\* no element, or one <tag> for each text of a set
OptLeaves(tag, texts) == {<<>>} \cup {<<Leaf(tag, t)>> : t \in texts}
StatusMuteDocs ==
  {StatusDoc(StatusBase \o mute \o muteVolume \o muteDb) :
     mute \in OptLeaves("mute", {<<"0">>, <<"1">>}),
     muteVolume \in OptLeaves("muteVolume", {<<>>, <<"2", "0">>}),
     muteDb \in OptLeaves("muteDb", {<<"-", "2", "0", ".", "1">>})}

\* <preset> elements: required attributes only, all attributes, an id that is
\* no number, a volume that is no number
Preset(attrs) == Elem("preset", attrs, <<>>, <<>>)
PresetElems ==
  {Preset([name |-> <<"P">>, id |-> <<"1">>, url |-> <<"u">>]),
   Preset([name |-> <<"Q">>, id |-> <<"2">>, url |-> <<"v">>, image |-> <<"i">>,
           volume |-> <<"5">>]),
   Preset([name |-> <<"R">>, id |-> <<"x">>, url |-> <<"w">>]),
   Preset([name |-> <<"S">>, id |-> <<"4">>, url |-> <<"w">>, volume |-> <<"x">>])}
\* <item> elements: two with every attribute, one without id
Item(attrs) == Elem("item", attrs, <<>>, <<>>)
ItemElems ==
  {Item([id |-> <<"i">>, text |-> <<"T">>, image |-> <<"p">>,
         URL |-> <<"C", "%", "3", "A", "1">>]),
   Item([id |-> <<"j">>, text |-> <<"U">>, image |-> <<"q">>, URL |-> <<"D">>]),
   Item([text |-> <<"B">>, image |-> <<"b">>, URL |-> <<"E">>])}
ElemLists(elems) == UNION {[1..n -> elems] : n \in 0..MaxItems}
\* documents for a parse function that lists the children of an anchor
\* element: the anchor as root, the children under another root, and a root
\* with the anchor twice (only the first with children)
ListDocs(anchor, elems) ==
  {Xml(Elem(anchor, <<>>, <<>>, kids)) : kids \in ElemLists(elems)}
    \cup {Xml(Elem("other", <<>>, <<>>, kids)) : kids \in ElemLists(elems)}
    \cup {Xml(Elem("other", <<>>, <<>>, <<Elem(anchor, <<>>, <<>>, kids), Leaf(anchor, <<>>)>>)) :
            kids \in ElemLists(elems)}

\* a document with the root of another one twice
TwoAnchors(d) == Xml(Elem("other", <<>>, <<>>, <<d.root, d.root>>))
\* attributes that may be absent: no attribute, or k with each text of a set
OptAttrib(k, texts) == {<<>>} \cup {[x \in {k} |-> t] : t \in texts}
\* the strings a device may write for a boolean
BoolTexts == {<<"0">>, <<"1">>, TRUE_, <<"f", "a", "l", "s", "e">>}
\* <volume> documents: the text, db and mute varied one at a time
VolumeElem(text, db, mute) == Xml(Elem("volume", [x \in {"db"} |-> db] @@ mute, text, <<>>))
VolumeFieldDocs ==
  {VolumeElem(t, <<"-", "2", "0", ".", "0">>, <<>>) : t \in {<<>>, <<"1", "0">>} \cup BadTexts}
    \cup {VolumeElem(<<"1", "0">>, db, <<>>) : db \in BadTexts}
    \cup {VolumeElem(<<"1", "0">>, <<"-", "2", "0", ".", "0">>, mute) :
            mute \in OptAttrib("mute", BoolTexts)}
\* <playlist> documents: length, modified and shuffle varied
PlaylistElem(length, modifiedAttr, shuffleAttr) ==
  Xml(Elem("playlist", [id |-> <<"1">>, length |-> length] @@ modifiedAttr @@ shuffleAttr,
           <<>>, <<>>))
PlaylistFieldDocs ==
  {PlaylistElem(length, <<>>, <<>>) : length \in BadTexts}
    \cup {PlaylistElem(<<"2", "3">>, modifiedAttr, shuffleAttr) :
            modifiedAttr \in OptAttrib("modified", BoolTexts),
            shuffleAttr \in OptAttrib("shuffle", BoolTexts)}
StateFieldDocs == {Xml(Leaf("state", t)) : t \in {<<>>, <<"p", "a", "u", "s", "e">>}}

\* a sequence of elements with the text of the one with a tag replaced
WithText(children, tag, t) ==
  [i \in 1..Len(children) |-> IF children[i].tag = tag THEN Leaf(tag, t) ELSE children[i]]
\* status documents with one numeric element that holds a number or none
StatusNumericDocs ==
  {StatusDoc(WithText(StatusBase, tag, t)) : tag \in {"volume", "db", "secs"}, t \in BadTexts}
    \cup {StatusDoc(StatusBase \o <<Leaf(tag, t)>>) :
            tag \in {"totlen", "muteVolume", "muteDb", "sleep", "groupVolume"},
            t \in BadTexts \cup {<<"7">>}}
\* SyncStatus documents with one numeric attribute that holds a number or none
SyncStatusNumericDocs ==
  {SyncStatusDoc([x \in {k} |-> t] @@ SyncStatusAttrs, <<>>) :
     k \in {"volume", "db", "muteVolume", "muteDb"}, t \in BadTexts \cup {<<"7">>}}
\* status documents with one boolean element
StatusBoolDocs ==
  {StatusDoc(StatusBase \o <<Leaf(tag, t)>>) :
     tag \in {"shuffle", "mute", "canSeek", "indexing"}, t \in BoolTexts}
\* SyncStatus documents over their boolean attributes
SyncStatusBoolDocs ==
  {SyncStatusDoc(initialized @@ zoneMaster @@ zoneSlave @@ SyncStatusAttrs, <<>>) :
     initialized \in OptAttrib("initialized", BoolTexts),
     zoneMaster \in OptAttrib("zoneMaster", {TRUE_, <<"f", "a", "l", "s", "e">>}),
     zoneSlave \in OptAttrib("zoneSlave", {TRUE_, <<"f", "a", "l", "s", "e">>})}

\* status documents without <secs>, with and without <totlen>
StatusNoSecsDocs ==
  {StatusDoc(SubSeq(StatusBase, 1, 3) \o totlen) :
     totlen \in {<<>>, <<Leaf("totlen", <<"7">>)>>}}

\* volumes a device may report: in 0..100, the fixed-volume -1, and outside
VolumeTexts == {<<"0">>, <<"1", "0", "0">>, <<"-", "1">>, <<"1", "5", "0">>, <<"-", "2">>}
StatusVolumeDocs ==
  {StatusDoc(WithText(StatusBase, "volume", t)) : t \in VolumeTexts}
    \cup {StatusDoc(StatusBase \o <<Leaf(tag, t)>>) :
            tag \in {"muteVolume", "groupVolume"}, t \in VolumeTexts}
SyncStatusVolumeDocs ==
  {SyncStatusDoc([x \in {"volume"} |-> t] @@ SyncStatusAttrs, <<>>) : t \in VolumeTexts}
VolumeRangeDocs == {VolumeElem(t, <<"-", "2", "0", ".", "0">>, <<>>) : t \in VolumeTexts}
PresetVolumeDocs ==
  {Xml(Elem("presets", <<>>, <<>>,
            <<Preset([name |-> <<"V">>, id |-> <<"3">>, url |-> <<"u">>, volume |-> t])>>)) :
     t \in VolumeTexts}

\* the optional elements of a status document that are read as they are or
\* converted under a truthiness test
OptionalTags == {"inputId", "service", "image", "muteVolume", "muteDb", "totlen",
                 "groupName", "groupVolume", "streamUrl"}
\* status documents with one optional element, empty or with a text
StatusOptionalDocs ==
  {StatusDoc(StatusBase \o <<Leaf(tag, t)>>) : tag \in OptionalTags, t \in {<<>>, <<"7">>}}
\* a sequence without its i-th element
Without(s, i) == SubSeq(s, 1, i - 1) \o SubSeq(s, i + 1, Len(s))
\* status documents without one of the elements, or without the etag
StatusMissingDocs ==
  {StatusDoc(Without(StatusBase, i)) : i \in 1..Len(StatusBase)}
    \cup {Xml(Elem("status", <<>>, <<>>, StatusBase))}
\* SyncStatus documents without one of the attributes
SyncStatusMissingDocs ==
  {SyncStatusDoc([k \in DOMAIN SyncStatusAttrs \ {a} |-> SyncStatusAttrs[k]], <<>>) :
     a \in DOMAIN SyncStatusAttrs}

\* the documents handed to each parse function: the sample bodies, a
\* document with the anchor element twice, and the families above
Docs(parserName, families) ==
  SampleBodies(parserName) \cup {TwoAnchors(SampleOk(parserName))} \cup families
StatusDocs ==
  Docs("parse_status", StatusAliasDocs \cup StatusSleepDocs \cup StatusMuteDocs
                          \cup StatusNumericDocs \cup StatusBoolDocs
                          \cup StatusNoSecsDocs \cup StatusVolumeDocs
                          \cup StatusOptionalDocs \cup StatusMissingDocs)
SyncStatusDocs ==
  Docs("parse_sync_status", SlaveDocs \cup MasterDocs \cup SyncStatusNumericDocs
                               \cup SyncStatusBoolDocs \cup SyncStatusVolumeDocs
                               \cup SyncStatusMissingDocs)
VolumeDocs == Docs("parse_volume", VolumeFieldDocs \cup VolumeRangeDocs)
PlayQueueDocs == Docs("parse_play_queue", PlaylistFieldDocs)
StateDocs == Docs("parse_state", StateFieldDocs)
SleepDocs == Docs("parse_sleep", {Xml(Leaf("sleep", t)) : t \in SleepTexts})
PresetsDocs == Docs("parse_presets", ListDocs("presets", PresetElems) \cup PresetVolumeDocs)
InputsDocs == Docs("parse_inputs", ListDocs("radiotime", ItemElems))
AddSlaveDocs == Docs("parse_add_slave", ListDocs("addSlave", SlaveElems))

ParseInit ==
  /\ session_owned = TRUE /\ default_timeout = DefaultTimeout
  /\ session_closed = FALSE /\ scope = "plain" /\ close_called = FALSE
  /\ exit_exc = None /\ last = NoCall
  /\ parser = "none" /\ doc = NotXml /\ parsed = None

Parsed(name, d, result) ==
  /\ parser' = name /\ doc' = d /\ parsed' = result
  /\ UNCHANGED clientVars
ParseStatus ==
  /\ parser = "none"
  /\ \E d \in StatusDocs : Parsed("parse_status", d, parse_status(d))
ParseSyncStatus ==
  /\ parser = "none"
  /\ \E d \in SyncStatusDocs : Parsed("parse_sync_status", d, parse_sync_status(d))
ParseSlaveList ==
  /\ parser = "none"
  /\ \E d \in SlaveDocs :
       Parsed("parse_slave_list", d, undecorated(parse_slave_list(xmltodict_slaves(d.root))))
ParseSleep ==
  /\ parser = "none"
  /\ \E d \in SleepDocs : Parsed("parse_sleep", d, parse_sleep(d))
ParsePresets ==
  /\ parser = "none"
  /\ \E d \in PresetsDocs : Parsed("parse_presets", d, parse_presets(d))
ParseInputs ==
  /\ parser = "none"
  /\ \E d \in InputsDocs : Parsed("parse_inputs", d, parse_inputs(d))
ParseAddSlave ==
  /\ parser = "none"
  /\ \E d \in AddSlaveDocs : Parsed("parse_add_slave", d, parse_add_slave(d))
ParseVolume ==
  /\ parser = "none"
  /\ \E d \in VolumeDocs : Parsed("parse_volume", d, parse_volume(d))
ParsePlayQueue ==
  /\ parser = "none"
  /\ \E d \in PlayQueueDocs : Parsed("parse_play_queue", d, parse_play_queue(d))
ParseState ==
  /\ parser = "none"
  /\ \E d \in StateDocs : Parsed("parse_state", d, parse_state(d))
\* the caller takes the result
ParseDone ==
  /\ parser # "none"
  /\ parser' = "none" /\ doc' = NotXml /\ parsed' = None
  /\ UNCHANGED clientVars

ParseNext ==
  \/ ParseDone
  \/ ParseStatus \/ ParseSyncStatus \/ ParseSlaveList \/ ParseSleep \/ ParsePresets
  \/ ParseInputs \/ ParseAddSlave \/ ParseVolume \/ ParsePlayQueue \/ ParseState
ParseSpec == ParseInit /\ [][ParseNext]_vars

Next ==
  \/ Status \/ SyncStatus \/ Volume \/ Play \/ PlayUrl \/ Pause \/ Stop \/ Skip \/ Back
  \/ AddSlave \/ AddSlaves \/ RemoveSlave \/ RemoveSlaves \/ Shuffle \/ Clear
  \/ SleepTimer \/ Presets \/ LoadPreset \/ Inputs
  \/ Resume \/ Close \/ AEnter \/ AExit

Spec == Init /\ [][Next]_vars

(***************************************************************************)
(* Properties of the Player methods (under Spec).                          *)
(***************************************************************************)
Called == last.op # "none"
LongPollCall == last.op \in {"status", "sync_status"}
\* the per-call timeout if given, otherwise the client's default_timeout
EffectiveTimeout ==
  IF IsNone(last.args.timeout) THEN default_timeout ELSE last.args.timeout.some
Raised(type) == last.result.kind = "raise" /\ last.result.exc.type = type
Responded == Called /\ ~IsNone(last.net) /\ last.net.some.kind = "response"
Failed(types) ==
  Called /\ ~IsNone(last.net) /\ last.net.some.kind = "fail" /\ last.net.some.exc \in types

\* C1: status and sync_status called with an etag and a poll_timeout that is
\* at least the effective timeout raise ValueError and have issued no request.
C1_PollTimeoutRejected ==
  (LongPollCall /\ ~IsNone(last.args.etag) /\ last.args.poll_timeout >= EffectiveTimeout)
    => (last.result = Raise(Exc("ValueError", None)) /\ last.requests = <<>>)
\* sync_status(etag="e1") with all defaults: 30 >= 5
C1_Witness ==
  /\ last.op = "sync_status" /\ last.args.etag = Some(<<"e", "1">>)
  /\ last.args.poll_timeout = DefaultPollTimeout /\ IsNone(last.args.timeout)
  /\ default_timeout = DefaultTimeout
  /\ Raised("ValueError") /\ last.requests = <<>>

\* C2: whenever the device answers an operation with an HTTP error status, the
\* call raises PlayerUnreachableError. The error statuses taken here are those
\* aiohttp takes as errors, 400 and above, all of them non-2xx.
C2_ErrorStatusUnreachable ==
  (Responded /\ last.net.some.status >= 400) => Raised("PlayerUnreachableError")

\* C3: a request timeout or a connection failure reaches the caller as
\* PlayerUnreachableError, caused by that failure, after at most one request.
C3_FailureUnreachable ==
  Failed({"TimeoutError", "ClientConnectionError"})
    => /\ Raised("PlayerUnreachableError")
       /\ last.result.exc.cause = Some(Exc(last.net.some.exc, None))
       /\ Len(last.requests) <= 1
C3_Witness ==
  /\ last.op = "volume" /\ Failed({"TimeoutError"})
  /\ Raised("PlayerUnreachableError") /\ Len(last.requests) = 1

C5_OwnedSessionClosed ==
  (session_owned /\ (scope = "exited" \/ close_called)) => session_closed
\* the `async with` left by the PlayerUnexpectedResponseError of a method
C5_Witness ==
  /\ session_owned /\ scope = "exited" /\ ~close_called
  /\ ~IsNone(exit_exc) /\ exit_exc.some.type = "PlayerUnexpectedResponseError"
  /\ session_closed

\* C6: a session handed to the constructor is never closed by the Player.
C6_BorrowedSessionOpen == ~session_owned => ~session_closed
\* after a failed method, the exit of the `async with` and close()
C6_Witness ==
  /\ ~session_owned /\ scope = "exited" /\ close_called
  /\ ~IsNone(exit_exc) /\ exit_exc.some.type = "PlayerUnreachableError"
  /\ ~session_closed

\* C7: every operation issues its request with a total timeout equal to the
\* per-call timeout when given and to default_timeout otherwise.
C7_RequestTimeout ==
  (Called /\ last.requests # <<>>)
    => last.requests[1].timeout = Some([total |-> EffectiveTimeout])

\* C8: status and sync_status with an etag and poll_timeout below the
\* effective timeout issue one request whose parameters are exactly etag (the
\* given one) and timeout (poll_timeout in decimal); with etag None they issue
\* one request without parameters, whatever poll_timeout is.
C8_PollParams ==
  LongPollCall =>
    IF IsNone(last.args.etag)
    THEN Len(last.requests) = 1 /\ DOMAIN last.requests[1].params = {}
    ELSE last.args.poll_timeout < EffectiveTimeout
           => /\ Len(last.requests) = 1
              /\ DOMAIN last.requests[1].params = {"etag", "timeout"}
              /\ last.requests[1].params.etag = last.args.etag.some
              /\ int_(last.requests[1].params.timeout) = Ok(last.args.poll_timeout)
\* status(etag="", poll_timeout=1, timeout=2)
C8_Witness ==
  /\ last.op = "status" /\ last.args.etag = Some(<<>>)
  /\ last.args.poll_timeout = 1 /\ last.args.timeout = Some(2)
  /\ Len(last.requests) = 1 /\ last.requests[1].params.etag = <<>>
  /\ last.requests[1].params.timeout = <<"1">>

\* the pieces of a string between its commas
RECURSIVE SplitComma(_)
SplitComma(s) ==
  IF \A i \in 1..Len(s) : s[i] # "," THEN <<s>>
  ELSE LET k == CHOOSE i \in 1..Len(s) : s[i] = "," /\ \A j \in 1..(i - 1) : s[j] # ","
       IN <<SubSeq(s, 1, k - 1)>> \o SplitComma(SubSeq(s, k + 1, Len(s)))
\* the <slave> children of the root of a response body
AnswerSlaves(body) == SelectSeq(body.root.children, LAMBDA c : c.tag = "slave")
\* C15: add_slaves and remove_slaves issue one request whose parameters are
\* slaves, the ips of the list joined by commas, and ports, its ports joined
\* by commas, both in the order of the list; what add_slaves returns is the
\* list of the <slave> elements of the answer, in the order of the answer.
C15_SlavesParams ==
  last.op \in {"add_slaves", "remove_slaves"}
    => /\ Len(last.requests) = 1
       /\ DOMAIN last.requests[1].params = {"slaves", "ports"}
       /\ IF last.args.slaves = <<>>
          THEN last.requests[1].params.slaves = <<>> /\ last.requests[1].params.ports = <<>>
          ELSE /\ SplitComma(last.requests[1].params.slaves)
                    = [i \in 1..Len(last.args.slaves) |-> last.args.slaves[i].ip]
               /\ Len(SplitComma(last.requests[1].params.ports)) = Len(last.args.slaves)
               /\ \A i \in 1..Len(last.args.slaves) :
                    int_(SplitComma(last.requests[1].params.ports)[i])
                      = Ok(last.args.slaves[i].port)
       /\ (last.op = "add_slaves" /\ last.result.kind = "return")
            => /\ Len(last.result.value) = Len(AnswerSlaves(last.net.some.body))
               /\ \A i \in 1..Len(last.result.value) :
                    /\ last.result.value[i].ip = AnswerSlaves(last.net.some.body)[i].attrib.id
                    /\ str_(last.result.value[i].port)
                         = AnswerSlaves(last.net.some.body)[i].attrib.port
\* add_slaves([a:11000, b:80]) answered with b in front of a
C15_Witness ==
  /\ last.op = "add_slaves"
  /\ last.args.slaves = <<PairedPlayer(<<"a">>, DefaultPort), PairedPlayer(<<"b">>, 80)>>
  /\ last.requests[1].params.slaves = <<"a", ",", "b">>
  /\ last.requests[1].params.ports = <<"1", "1", "0", "0", "0", ",", "8", "0">>
  /\ last.result = Return(<<PairedPlayer(<<"b">>, 80), PairedPlayer(<<"a">>, DefaultPort)>>)

(***************************************************************************)
(* Properties of the parse functions (under ParseSpec).                    *)
(***************************************************************************)
Returned(name) == parser = name /\ parsed.kind = "return"
\* the children of the document's root with one tag, in document order
Children(tag) == SelectSeq(doc.root.children, LAMBDA c : c.tag = tag)
\* the text of the first <new>, else of the first <legacy>, else None
Preferred(new, legacy) ==
  IF Children(new) # <<>> THEN Some(Children(new)[1].text)
  ELSE IF Children(legacy) # <<>> THEN Some(Children(legacy)[1].text)
  ELSE None

\* C9: in the Status that parse_status returns, name is the text of <name> if
\* that element is present, else the text of <title1> if present, else None;
\* artist likewise from <artist> then <title2>, album from <album> then <title3>.
C9_AliasPrecedence ==
  Returned("parse_status")
    => /\ parsed.value.name = Preferred("name", "title1")
       /\ parsed.value.artist = Preferred("artist", "title2")
       /\ parsed.value.album = Preferred("album", "title3")
\* <title1> in front of <name>, <title2> without <artist>, neither album tag
C9_Witness ==
  /\ Returned("parse_status")
  /\ Children("name") # <<>> /\ Children("title1") # <<>>
  /\ doc.root.children[Len(StatusBase) + 1].tag = "title1"
  /\ Children("artist") = <<>> /\ Children("title2") # <<>>
  /\ Children("album") = <<>> /\ Children("title3") = <<>>
  /\ parsed.value.name = Some(<<"N">>) /\ parsed.value.artist = Some(<<"U">>)
  /\ parsed.value.album = None

\* the list of PairedPlayers that stands for the <slave> children: None for
\* no child, else one PairedPlayer per child, in document order, with the id
\* attribute as ip and the number the port attribute writes as port
IsSlaveList(slaves) ==
  IF Children("slave") = <<>> THEN slaves = None
  ELSE /\ ~IsNone(slaves)
       /\ Len(slaves.some) = Len(Children("slave"))
       /\ \A i \in 1..Len(slaves.some) :
            /\ slaves.some[i].ip = Children("slave")[i].attrib.id
            /\ slaves.some[i].port \in Int
            /\ str_(slaves.some[i].port) = Children("slave")[i].attrib.port
\* C10: the slaves of the SyncStatus that parse_sync_status returns are None
\* for a document without <slave> children and otherwise one PairedPlayer per
\* <slave> child in document order, id as ip and port as integer; and so is
\* what _parse.parse_slave_list returns when every <slave> has id and port.
C10_SlaveList ==
  /\ Returned("parse_sync_status") => IsSlaveList(parsed.value.slaves)
  /\ (/\ Returned("parse_slave_list")
      /\ \A i \in 1..Len(Children("slave")) :
           {"id", "port"} \subseteq DOMAIN Children("slave")[i].attrib)
       => IsSlaveList(parsed.value)
\* two <slave> children, b in front of a, behind a <zone> with a <slave> of its own
C10_Witness ==
  /\ Returned("parse_sync_status")
  /\ Len(Children("slave")) = 2
  /\ doc.root.children[1].tag = "zone"
  /\ parsed.value.slaves =
       Some(<<PairedPlayer(<<"b">>, 80), PairedPlayer(<<"a">>, DefaultPort)>>)

\* C11: the master of the SyncStatus that parse_sync_status returns is None
\* exactly when the document has no <master> child; otherwise it is the
\* PairedPlayer with the text of the first <master> as ip and the number its
\* port attribute writes as port.
C11_Master ==
  Returned("parse_sync_status")
    => IF Children("master") = <<>> THEN parsed.value.master = None
       ELSE /\ ~IsNone(parsed.value.master)
            /\ parsed.value.master.some.ip =
                 (IF Children("master")[1].text = <<>> THEN None
                  ELSE Some(Children("master")[1].text))
            /\ parsed.value.master.some.port \in Int
            /\ str_(parsed.value.master.some.port) = Children("master")[1].attrib.port
\* a <master port="80"/> without text, behind <pairWithSub/>
C11_Witness ==
  /\ Returned("parse_sync_status")
  /\ Len(Children("master")) = 1 /\ Children("master")[1].text = <<>>
  /\ Children("pairWithSub") # <<>>
  /\ parsed.value.master = Some(PairedPlayer(None, 80))

\* the number a <sleep> stands for: 0 for none or an empty one, else the
\* number its text writes
IsSleepOf(n, sleeps) ==
  IF sleeps = <<>> \/ sleeps[1].text = <<>> THEN n = 0
  ELSE n \in Int /\ str_(n) = sleeps[1].text
\* C12: parse_status returns sleep = 0 for a document without <sleep> or with
\* an empty one and the number in it otherwise; parse_sleep returns 0 for
\* <sleep/> and the number in it otherwise; neither fails on an empty <sleep>.
C12_Sleep ==
  /\ (parser = "parse_status" /\ doc \in StatusSleepDocs)
       => IF Children("sleep") # <<>> /\ Children("sleep")[1].text \in BadTexts
          THEN parsed.kind = "raise"
          ELSE parsed.kind = "return" /\ IsSleepOf(parsed.value.sleep, Children("sleep"))
  /\ Returned("parse_status") => IsSleepOf(parsed.value.sleep, Children("sleep"))
  /\ (parser = "parse_sleep" /\ doc.wellformed /\ doc.root.tag = "sleep")
       => IF doc.root.text \in BadTexts THEN parsed.kind = "raise"
          ELSE parsed.kind = "return" /\ IsSleepOf(parsed.value, <<doc.root>>)
\* <status> with <sleep/> parsed to sleep 0
C12_Witness ==
  /\ Returned("parse_status")
  /\ Children("sleep") # <<>> /\ Children("sleep")[1].text = <<>>
  /\ parsed.value.sleep = 0

\* C13: in every Status that parse_status returns, mute_volume and
\* mute_volume_db are None unless mute is True (the direction of the claim
\* that its example states: <mute>0</mute> or no <mute>, with <muteVolume>
\* and <muteDb> in the document, gives None for both).
C13_MuteVolumeOnlyWhenMuted ==
  (Returned("parse_status") /\ ~parsed.value.mute)
    => (IsNone(parsed.value.mute_volume) /\ IsNone(parsed.value.mute_volume_db))

\* the parse functions that return a list, the element each has as anchor
\* and the children it lists
ListParsers == {"parse_presets", "parse_inputs", "parse_add_slave"}
Anchor(name) ==
  CASE name = "parse_presets" -> "presets" [] name = "parse_inputs" -> "radiotime"
    [] name = "parse_add_slave" -> "addSlave" [] name = "parse_status" -> "status"
    [] name = "parse_sync_status" -> "SyncStatus" [] name = "parse_volume" -> "volume"
    [] name = "parse_play_queue" -> "playlist" [] name = "parse_state" -> "state"
    [] name = "parse_sleep" -> "sleep"
Listed(name) ==
  CASE name = "parse_presets" -> "preset" [] name = "parse_inputs" -> "item"
    [] name = "parse_add_slave" -> "slave"
\* the attribute a record of the list is told by, and the field that holds it
KeyAttrib(name) == IF name = "parse_presets" THEN "name" ELSE IF name = "parse_inputs" THEN "text" ELSE "id"
KeyOf(name, rec) ==
  IF name = "parse_presets" THEN rec.name ELSE IF name = "parse_inputs" THEN rec.text ELSE rec.ip
\* C14: on a document whose root is the anchor element, parse_presets,
\* parse_inputs and parse_add_slave return a list with one record per
\* <preset>, <item>, <slave> child in document order: the empty list for no
\* child, a one-element list for one.
C14_ListPerChild ==
  /\ (parser \in ListParsers /\ parsed.kind = "return" /\ doc.root.tag = Anchor(parser))
       => /\ Len(parsed.value) = Len(Children(Listed(parser)))
          /\ \A i \in 1..Len(parsed.value) :
               KeyOf(parser, parsed.value[i])
                 = Children(Listed(parser))[i].attrib[KeyAttrib(parser)]
  /\ (/\ parser \in ListParsers /\ doc.wellformed /\ doc.root.tag = Anchor(parser)
      /\ Children(Listed(parser)) = <<>>)
       => parsed = Return(<<>>)
\* <presets> with Q in front of P
C14_Witness ==
  /\ Returned("parse_presets") /\ doc.root.tag = "presets"
  /\ Len(parsed.value) = 2
  /\ parsed.value[1].name = <<"Q">> /\ parsed.value[1].id = 2
  /\ parsed.value[1].volume = Some(5)
  /\ parsed.value[2].name = <<"P">> /\ parsed.value[2].volume = None

Parsers == ListParsers \cup {"parse_status", "parse_sync_status", "parse_volume",
                             "parse_play_queue", "parse_state", "parse_sleep"}
\* how many elements with a tag there are in a sequence of trees
RECURSIVE CountTag(_, _)
CountTag(es, tag) ==
  IF es = <<>> THEN 0
  ELSE (IF Head(es).tag = tag THEN 1 ELSE 0)
         + CountTag(Head(es).children, tag) + CountTag(Tail(es), tag)
\* C16: a parse function handed a document that holds no or more than one
\* of its anchor element fails with PlayerUnexpectedResponseError.
C16_AnchorCardinality ==
  (/\ parser \in Parsers /\ doc.wellformed
   /\ CountTag(<<doc.root>>, Anchor(parser)) # 1)
    => (parsed.kind = "raise" /\ parsed.exc.type = "PlayerUnexpectedResponseError")

\* the numeric fields of each document: children of the root, attributes of
\* the root, the text of the root, attributes of the listed children
NumericTags(name) ==
  IF name = "parse_status"
  THEN {"volume", "db", "secs", "totlen", "muteVolume", "muteDb", "sleep", "groupVolume"}
  ELSE {}
NumericAttribs(name) ==
  CASE name = "parse_sync_status" -> {"volume", "db", "muteVolume", "muteDb"}
    [] name = "parse_volume" -> {"db"}
    [] name = "parse_play_queue" -> {"length"}
    [] OTHER -> {}
NumericChildAttribs(name) ==
  CASE name = "parse_sync_status" -> {<<"slave", "port">>}
    [] name = "parse_presets" -> {<<"preset", "id">>, <<"preset", "volume">>}
    [] OTHER -> {}
\* the document holds its one anchor element as root and, in a numeric field
\* the parse function reads, a text that is no number
BadNumber ==
  /\ doc.wellformed /\ doc.root.tag = Anchor(parser)
  /\ \/ \E tag \in NumericTags(parser) :
          Children(tag) # <<>> /\ Children(tag)[1].text \in BadTexts
     \/ \E k \in NumericAttribs(parser) \cap DOMAIN doc.root.attrib :
          doc.root.attrib[k] \in BadTexts
     \/ parser \in {"parse_volume", "parse_sleep"} /\ doc.root.text \in BadTexts
     \/ \E ca \in NumericChildAttribs(parser) : \E i \in 1..Len(Children(ca[1])) :
          /\ ca[2] \in DOMAIN Children(ca[1])[i].attrib
          /\ Children(ca[1])[i].attrib[ca[2]] \in BadTexts
     \/ /\ parser = "parse_sync_status" /\ Children("master") # <<>>
        /\ "port" \in DOMAIN Children("master")[1].attrib
        /\ Children("master")[1].attrib.port \in BadTexts
\* C17: a text that is no number in a numeric field (for <master>, the one
\* the parse function reads, the first) makes the parse function raise
\* PlayerUnexpectedResponseError; no record is returned.
C17_BadNumberRaises ==
  (parser \in Parsers /\ BadNumber)
    => (parsed.kind = "raise" /\ parsed.exc.type = "PlayerUnexpectedResponseError")
\* <groupVolume>x</groupVolume> in a status document
C17_Witness ==
  /\ parser = "parse_status" /\ BadNumber
  /\ Children("groupVolume") # <<>> /\ Children("groupVolume")[1].text = <<"x">>
  /\ parsed = Raise(Exc("PlayerUnexpectedResponseError", Some(Exc("ValueError", None))))

\* the one rule: a source string is true when it is "1" or "true"
TruthyString(o) == ~IsNone(o) /\ o.some \in {<<"1">>, TRUE_}
\* the text of the first child with a tag, and an attribute of the root
ChildText(tag) == IF Children(tag) = <<>> THEN None ELSE Some(Children(tag)[1].text)
RootAttrib(k) == IF k \in DOMAIN doc.root.attrib THEN Some(doc.root.attrib[k]) ELSE None
\* C18: every boolean field of a returned record is True exactly when its
\* source string is "1" or "true": Status shuffle, mute, canSeek, indexing;
\* SyncStatus initialized, zoneMaster, zoneSlave; Volume mute; playlist
\* modified, shuffle.
C18_BooleanRule ==
  /\ Returned("parse_status")
       => /\ parsed.value.shuffle = TruthyString(ChildText("shuffle"))
          /\ parsed.value.mute = TruthyString(ChildText("mute"))
          /\ parsed.value.can_seek = TruthyString(ChildText("canSeek"))
          /\ parsed.value.indexing = TruthyString(ChildText("indexing"))
  /\ (Returned("parse_sync_status") /\ doc.root.tag = "SyncStatus")
       => /\ parsed.value.initialized = TruthyString(RootAttrib("initialized"))
          /\ parsed.value.zone_master = TruthyString(RootAttrib("zoneMaster"))
          /\ parsed.value.zone_slave = TruthyString(RootAttrib("zoneSlave"))
  /\ (Returned("parse_volume") /\ doc.root.tag = "volume")
       => parsed.value.mute = TruthyString(RootAttrib("mute"))
  /\ (Returned("parse_play_queue") /\ doc.root.tag = "playlist")
       => /\ parsed.value.modified = TruthyString(RootAttrib("modified"))
          /\ parsed.value.shuffle = TruthyString(RootAttrib("shuffle"))


\* C19: parse_status returns a record for a status document without <secs>
\* and <totlen>, with seconds None and total_seconds None, and the other
\* absent optional elements None as well.
C19_SecsOptional ==
  (parser = "parse_status" /\ doc \in StatusNoSecsDocs /\ Children("totlen") = <<>>)
    => /\ Returned("parse_status")
       /\ parsed.value.seconds = None /\ parsed.value.total_seconds = None
       /\ parsed.value.name = None /\ parsed.value.group_volume = None

\* C20: parse_inputs returns, for a <radiotime> whose <item> children may
\* lack the id attribute, one Input per item in document order, with id None
\* where the attribute is absent.
C20_InputWithoutId ==
  (parser = "parse_inputs" /\ doc.wellformed /\ doc.root.tag = "radiotime")
    => /\ Returned("parse_inputs")
       /\ Len(parsed.value) = Len(Children("item"))
       /\ \A i \in 1..Len(Children("item")) :
            /\ parsed.value[i].text = Children("item")[i].attrib.text
            /\ parsed.value[i].id =
                 IF "id" \in DOMAIN Children("item")[i].attrib
                   THEN Children("item")[i].attrib.id ELSE None

\* a volume is in 0..100 or the fixed-volume sentinel -1
InVolumeRange(v) == v \in 0..100 \cup {-1}
OptInVolumeRange(o) == IsNone(o) \/ InVolumeRange(o.some)
\* C21: every record a parse function returns has its volume fields in
\* 0..100 or equal to -1: Status.volume, SyncStatus.volume, Volume.volume,
\* and Preset.volume, Status.group_volume, mute_volume when present.
C21_VolumeRange ==
  /\ Returned("parse_status")
       => /\ InVolumeRange(parsed.value.volume)
          /\ OptInVolumeRange(parsed.value.group_volume)
          /\ OptInVolumeRange(parsed.value.mute_volume)
  /\ Returned("parse_sync_status")
       => /\ InVolumeRange(parsed.value.volume)
          /\ OptInVolumeRange(parsed.value.mute_volume)
  /\ Returned("parse_volume") => InVolumeRange(parsed.value.volume)
  /\ Returned("parse_presets")
       => \A i \in 1..Len(parsed.value) : OptInVolumeRange(parsed.value[i].volume)

(***************************************************************************)
(* Further properties of the Player methods (under Spec).                  *)
(***************************************************************************)
\* the parameters of the one request of the last call
SentParams == last.requests[1].params
\* the names of the arguments of the last call, out of ks, that are not None
Supplied(ks) == {k \in ks : ~IsNone(last.args[k])}
\* C22: Player.volume sends each of level, mute, tell_slaves exactly when the
\* argument is not None; supplied falsy values are sent (level=0 as "0",
\* False as "0"), and a call without arguments sends no parameters.
C22_VolumeParams ==
  last.op = "volume"
    => /\ Len(last.requests) = 1
       /\ DOMAIN SentParams = Supplied({"level", "mute", "tell_slaves"})
       /\ "level" \in DOMAIN SentParams => SentParams.level = str_(last.args.level.some)
       /\ "mute" \in DOMAIN SentParams
            => SentParams.mute = (IF last.args.mute.some THEN <<"1">> ELSE <<"0">>)
       /\ "tell_slaves" \in DOMAIN SentParams
            => SentParams.tell_slaves
                 = (IF last.args.tell_slaves.some THEN <<"1">> ELSE <<"0">>)
\* volume(level=0, mute=False, tell_slaves=False)
C22_Witness ==
  /\ last.op = "volume" /\ last.args.level = Some(0)
  /\ last.args.mute = Some(FALSE) /\ last.args.tell_slaves = Some(FALSE)
  /\ SentParams = [level |-> <<"0">>, mute |-> <<"0">>, tell_slaves |-> <<"0">>]

\* "1" for True, "0" for False
Literal01(b) == IF b THEN <<"1">> ELSE <<"0">>
\* C23: every boolean request parameter that is sent is "1" when the
\* argument is True and "0" when it is False: mute and tell_slaves of volume,
\* shuffle of shuffle, toggle of pause.
C23_BoolParams ==
  /\ last.op = "volume"
       => \A k \in {"mute", "tell_slaves"} \cap DOMAIN SentParams :
            SentParams[k] = Literal01(last.args[k].some)
  /\ last.op = "shuffle" => SentParams.shuffle = Literal01(last.args.shuffle)
  /\ (last.op = "pause" /\ "toggle" \in DOMAIN SentParams)
       => SentParams.toggle = Literal01(last.args.toggle.some)

\* the endpoint path fixed for each operation
PathOf(op) ==
  CASE op = "status" -> "/Status" [] op = "sync_status" -> "/SyncStatus"
    [] op = "volume" -> "/Volume" [] op \in {"play", "play_url"} -> "/Play"
    [] op = "pause" -> "/Pause" [] op = "stop" -> "/Stop"
    [] op = "skip" -> "/Skip" [] op = "back" -> "/Back"
    [] op \in {"add_slave", "add_slaves"} -> "/AddSlave"
    [] op \in {"remove_slave", "remove_slaves"} -> "/RemoveSlave"
    [] op = "shuffle" -> "/Shuffle" [] op = "clear" -> "/Clear"
    [] op = "sleep_timer" -> "/Sleep" [] op = "presets" -> "/Presets"
    [] op = "load_preset" -> "/Preset" [] op = "inputs" -> "/RadioBrowse"
\* the poll_timeout precondition of status and sync_status holds
PassedPrecondition ==
  Called /\ ~(LongPollCall /\ ~IsNone(last.args.etag)
                /\ last.args.poll_timeout >= EffectiveTimeout)
\* C24: each Player operation that passes its local precondition issues
\* exactly one GET, to the path fixed for the operation (inputs with
\* service=Capture), whether the call then succeeds or fails.
C24_OneRequest ==
  PassedPrecondition
    => /\ Len(last.requests) = 1
       /\ last.requests[1].path = PathOf(last.op)
       /\ last.op = "inputs"
            => SentParams = [service |-> <<"C", "a", "p", "t", "u", "r", "e">>]
\* skip whose request timed out: still one request, to /Skip
C24_Witness ==
  /\ last.op = "skip" /\ Failed({"TimeoutError"})
  /\ last.requests[1].path = "/Skip" /\ Len(last.requests) = 1

\* C30: the error kinds stay distinct through _wrap_in_unreachable_error:
\* PlayerUnreachableError is raised only for a TimeoutError or a
\* ClientConnectionError of the request; the parser's
\* PlayerUnexpectedResponseError on a 2xx response and the ValueError of the
\* poll_timeout precondition reach the caller as they were raised.
C30_ErrorKindsDistinct ==
  /\ (Called /\ Raised("PlayerUnreachableError"))
       => Failed({"TimeoutError", "ClientConnectionError"})
  /\ (Responded /\ last.net.some.status \in 200..299 /\ last.parser # "none"
        /\ parse(last.parser, last.net.some.body).kind = "raise")
       => /\ last.result = parse(last.parser, last.net.some.body)
          /\ Raised("PlayerUnexpectedResponseError")
  /\ (Called /\ ~PassedPrecondition) => last.result = Raise(Exc("ValueError", None))
\* remove_slave answered 200 with a body that is no XML
C30_Witness ==
  /\ last.op = "remove_slave" /\ Responded /\ last.net.some.status = 200
  /\ last.net.some.body = NotXml
  /\ Raised("PlayerUnexpectedResponseError")

(***************************************************************************)
(* Further properties of the parse functions (under ParseSpec).            *)
(***************************************************************************)
\* <new> is present with no text and <legacy> is present with a text
EmptyNewTextLegacy(new, legacy) ==
  /\ Children(new) # <<>> /\ Children(new)[1].text = <<>>
  /\ Children(legacy) # <<>> /\ Children(legacy)[1].text # <<>>
\* C25: in parse_status the first non-empty candidate wins: with the new tag
\* present but empty and the legacy tag holding a text, name, artist and
\* album equal the legacy tag's text, not the empty string.
C25_FirstNonEmptyWins ==
  Returned("parse_status")
    => /\ EmptyNewTextLegacy("name", "title1")
            => parsed.value.name = Some(Children("title1")[1].text)
       /\ EmptyNewTextLegacy("artist", "title2")
            => parsed.value.artist = Some(Children("title2")[1].text)
       /\ EmptyNewTextLegacy("album", "title3")
            => parsed.value.album = Some(Children("title3")[1].text)

\* the document without its children of one tag
Removed(d, tag) ==
  Xml([d.root EXCEPT !.children = SelectSeq(d.root.children, LAMBDA c : c.tag # tag)])
\* C26: for each optional element of a status document, the record parsed
\* from a document with the element present but empty equals the record
\* parsed from the same document with the element removed.
C26_EmptyAsAbsent ==
  \A tag \in OptionalTags :
    (parser = "parse_status" /\ doc.wellformed /\ doc.root.tag = "status"
       /\ Children(tag) # <<>>
       /\ \A i \in 1..Len(Children(tag)) : Children(tag)[i].text = <<>>)
      => parsed = parse_status(Removed(doc, tag))

\* C27: parse_sync_status derives zone_slave from the zoneSlave attribute
\* only and zone_master from the zoneMaster attribute only: each is True
\* exactly when its own attribute is "true".
C27_ZoneSlaveOwnAttribute ==
  (Returned("parse_sync_status") /\ doc.root.tag = "SyncStatus")
    => /\ parsed.value.zone_slave = (RootAttrib("zoneSlave") = Some(TRUE_))
       /\ parsed.value.zone_master = (RootAttrib("zoneMaster") = Some(TRUE_))

\* the document, with its one anchor element as root, lacks the source of a
\* field that is declared non-optional
MissingRequired ==
  /\ doc.wellformed
  /\ \/ /\ parser = "parse_status" /\ doc.root.tag = "status"
        /\ \/ "etag" \notin DOMAIN doc.root.attrib
           \/ \E tag \in {"state", "volume", "db"} : Children(tag) = <<>>
     \/ /\ parser = "parse_sync_status" /\ doc.root.tag = "SyncStatus"
        /\ \E a \in {"etag", "id", "mac", "name", "icon", "brand", "model", "modelName",
                     "db", "volume"} : a \notin DOMAIN doc.root.attrib
     \/ parser = "parse_state" /\ doc.root.tag = "state" /\ doc.root.text = <<>>
\* C28: a document missing the source of a non-optional field yields
\* PlayerUnexpectedResponseError, never a record: for parse_status the etag
\* attribute and the state, volume, db elements; for parse_sync_status the
\* attributes etag, id, mac, name, icon, brand, model, modelName, db, volume;
\* for parse_state the text of <state>.
C28_MissingRequiredRaises ==
  MissingRequired
    => (parsed.kind = "raise" /\ parsed.exc.type = "PlayerUnexpectedResponseError")

\* PlayerUnexpectedResponseError raised from an exception of one type
UnexpectedFrom(type) ==
  Raise(Exc("PlayerUnexpectedResponseError", Some(Exc(type, None))))
\* C29: the only exception that escapes a parse function of pyblu.parse is
\* PlayerUnexpectedResponseError, and it carries the underlying failure as
\* its cause: the XML syntax error of a malformed document, the
\* AssertionError of a failed cardinality assertion, the KeyError of a
\* missing attribute, the TypeError of a missing element passed to int or
\* float, the ValueError of a text that is no number.
C29_OnlyUnexpectedResponse ==
  parser \in Parsers
    => /\ parsed.kind = "raise"
            => \E t \in {"XMLSyntaxError", "AssertionError", "KeyError", "TypeError",
                         "ValueError"} : parsed = UnexpectedFrom(t)
       /\ ~doc.wellformed => parsed = UnexpectedFrom("XMLSyntaxError")
       /\ (doc.wellformed /\ parser \notin ListParsers /\ doc.root.tag = "error")
            => parsed = UnexpectedFrom("AssertionError")
       /\ (doc.wellformed /\ parser = "parse_sync_status" /\ doc.root.tag = "SyncStatus"
             /\ doc.root.children = <<>>
             /\ \E a \in {"etag", "id", "mac", "name", "icon", "brand", "model",
                          "modelName"} : a \notin DOMAIN doc.root.attrib)
            => parsed = UnexpectedFrom("KeyError")
       /\ (doc.wellformed /\ parser = "parse_status" /\ doc.root.tag = "status"
             /\ "etag" \in DOMAIN doc.root.attrib /\ Children("volume") = <<>>)
            => parsed = UnexpectedFrom("TypeError")
       /\ (doc.wellformed /\ parser = "parse_volume" /\ doc.root.tag = "volume"
             /\ doc.root.text \in BadTexts)
            => parsed = UnexpectedFrom("ValueError")
\* a status document without <volume>: int(None)
C29_Witness ==
  /\ parser = "parse_status" /\ doc.wellformed /\ doc.root.tag = "status"
  /\ Children("volume") = <<>> /\ Children("state") # <<>>
  /\ parsed = UnexpectedFrom("TypeError")

====
